---- MODULE Spec2Model ----
(***************************************************************************)
(* State-machine model of the App component of src/App.tsx: the upload /   *)
(* select-option / process workflow, its asynchronous processing attempts  *)
(* (suspended in fileToBase64 or in processImage) and the hooks that       *)
(* memoize canProcess and handleProcessImage.                              *)
(*                                                                         *)
(* JavaScript runs every synchronous segment to completion, so one action  *)
(* is one event handler or one continuation of an attempt, followed by     *)
(* the re-render that recomputes the memoized values.                      *)
(*                                                                         *)
(* A nullable JavaScript value is the tuple <<>> (null / undefined) or     *)
(* <<v>> (the value v).                                                    *)
(***************************************************************************)
EXTENDS Integers, Sequences, FiniteSets, TLC

\* ---------------------------------------------------------------- bounds
\* Number of files the user uploads in one session.
MaxUploads == 2
\* Number of processing attempts started from the button in one session.
MaxAttempts == 2
\* Number of processing attempts started by calling the handler directly.
MaxInvocations == 1

\* ------------------------------------------------------- nullable values
Null == <<>>
Some(v) == <<v>>

\* JavaScript truthiness of a nullable boolean and of a nullable string.
Truthy(v) == v # Null /\ v[1]
TruthyString(v) == v # Null /\ v[1] # ""

\* a || b where a is a nullable string and b is a string.
OrElse(a, b) == IF TruthyString(a) THEN a[1] ELSE b

\* ------------------------------------------------------------ data model
\* enum BackgroundOption; useState default is WHITE.
BackgroundOption == {"WHITE", "ORIGINAL"}

\* The kinds of file the user picks: declared media type and content.
FileKinds ==
  { [type |-> "image/jpeg", data |-> "foo"],
    [type |-> "image/png",  data |-> "bar"] }

\* btoa of the content, as FileReader.readAsDataURL encodes it.
Base64Of(data) == IF data = "foo" THEN "Zm9v" ELSE "YmFy"

\* reader.result of readAsDataURL, "data:<type>;base64,<payload>", as the
\* pieces the code's splits at ',', ':' and ';' cut it in.
readAsDataURL(file) == <<"data", file.type, "base64", Base64Of(file.data)>>

\* fileToBase64's onload: result.split(',')[0].split(':')[1].split(';')[0]
\* and result.split(',')[1].
fileToBase64(file) ==
  LET result == readAsDataURL(file)
  IN  [base64 |-> result[4], mimeType |-> result[2]]

\* reader.onerror rejects with the error event, which has no message.
ReadErrorEvent == [message |-> Null]

\* Results of processImage (services/geminiService): a base64 payload ...
Payloads == {"Zm9v", "cXV4"}

\* ... or a failure, with a message, an empty message or none.
RemoteErrors ==
  { [message |-> Some("quota exceeded")],
    [message |-> Some("")],
    [message |-> Null] }

ValidationMessage == "Please upload an image first."
GenericMessage == "An unexpected error occurred."

PromptWhite == "Enhance this photo to be a clean, modern, professional, realistic headshot. Replace the background with a clean, plain white background with natural, soft studio lighting."
PromptOriginal == "Enhance this photo to be a clean, modern, professional, realistic headshot with great natural lighting. Keep the original background but make it look more polished, slightly blurred, and high-quality, as if taken by a professional photographer."

\* A prompt that does not look at the option.
PromptAlwaysWhite(option) == PromptWhite

\* const prompt = backgroundOption === BackgroundOption.WHITE ? ... : ...
Prompt(option) == IF option = "WHITE" THEN PromptWhite ELSE PromptOriginal

\* A result URL that carries the payload with no media-type prefix.
NewImageUrlRaw(resultBase64) == resultBase64

\* `data:image/png;base64,${resultBase64}`
NewImageUrl(resultBase64) == "data:image/png;base64," \o resultBase64

\* err.message, with no fallback.
ErrorMessageNoFallback(err) == IF err.message = Null THEN "" ELSE err.message[1]

\* err.message || "An unexpected error occurred."
ErrorMessage(err) == OrElse(err.message, GenericMessage)

\* ----------------------------------------------------------------- state
VARIABLES
  uploadedFile,        \* useState<File | null>
  previewUrl,          \* useState<string | null>
  processedImageUrl,   \* useState<string | null>
  backgroundOption,    \* useState<BackgroundOption>
  isLoading,           \* useState<boolean>
  error,               \* useState<string | null>
  canProcessMemo,      \* useMemo cell of canProcess: [deps, value]
  processCallback,     \* useCallback cell of handleProcessImage: [deps, closure]
  attempts,            \* the suspended handleProcessImage calls, by attempt number
  nAttempts,           \* attempts started so far
  started,             \* the file and option chosen when each attempt was started
  urlStore,            \* the browser's object URLs: [created, live]
  calls,               \* the calls made to fileToBase64 and processImage, in order
  last                 \* the step that led here and the state it started from

vars == <<uploadedFile, previewUrl, processedImageUrl, backgroundOption, isLoading,
          error, canProcessMemo, processCallback, attempts, nAttempts, started,
          urlStore, calls, last>>

\* The WorkflowState the component renders.
View ==
  [ uploadedFile |-> uploadedFile, previewUrl |-> previewUrl,
    processedImageUrl |-> processedImageUrl, backgroundOption |-> backgroundOption,
    isLoading |-> isLoading, error |-> error ]

\* The file and the option the user has chosen.
Selection == [uploadedFile |-> uploadedFile, backgroundOption |-> backgroundOption]

\* ----------------------------------------------------------------- hooks
\* useMemo / useCallback: keep the cell while the dependencies are unchanged.
UseMemo(cell, deps, value) ==
  IF cell.deps = deps THEN cell ELSE [deps |-> deps, value |-> value]

\* uploadedFile && !isLoading
CanProcessValue(file, loading) == IF file = Null THEN Null ELSE Some(~loading)

\* A dependency list that leaves isLoading out.
CanProcessDepsFileOnly(file, loading) == <<file>>

\* useMemo(() => uploadedFile && !isLoading, [uploadedFile, isLoading])
CanProcessDeps(file, loading) == <<file, loading>>

\* A dependency list that leaves backgroundOption out.
ProcessDepsFileOnly(file, option) == <<file>>

\* useCallback(..., [uploadedFile, backgroundOption])
ProcessDeps(file, option) == <<file, option>>

\* The values handleProcessImage closes over.
Closure(file, option) == [uploadedFile |-> file, backgroundOption |-> option]

canProcess == canProcessMemo.value

\* The re-render after a step: both memo cells are brought up to date.
Render ==
  /\ canProcessMemo' = UseMemo(canProcessMemo,
                               CanProcessDeps(uploadedFile', isLoading'),
                               CanProcessValue(uploadedFile', isLoading'))
  /\ processCallback' = UseMemo(processCallback,
                                ProcessDeps(uploadedFile', backgroundOption'),
                                Closure(uploadedFile', backgroundOption'))

\* The record of a step: its handler, the attempt it belongs to (0: none), the
\* value it was given and what the state was when it began.
Step(op, att, arg) ==
  [ op |-> op, att |-> att, arg |-> arg, pre |-> View,
    preAttempts |-> DOMAIN attempts, preCalls |-> Len(calls),
    preCreated |-> urlStore.created ]

Init ==
  /\ uploadedFile = Null
  /\ previewUrl = Null
  /\ processedImageUrl = Null
  /\ backgroundOption = "WHITE"
  /\ isLoading = FALSE
  /\ error = Null
  /\ canProcessMemo = [deps |-> CanProcessDeps(Null, FALSE),
                       value |-> CanProcessValue(Null, FALSE)]
  /\ processCallback = [deps |-> ProcessDeps(Null, "WHITE"),
                        value |-> Closure(Null, "WHITE")]
  /\ attempts = << >>
  /\ nAttempts = 0
  /\ started = << >>
  /\ urlStore = [created |-> 0, live |-> {}]
  /\ calls = << >>
  /\ last = [ op |-> "init", att |-> 0, arg |-> Null, pre |-> View,
              preAttempts |-> {}, preCalls |-> 0, preCreated |-> 0 ]

\* --------------------------------------------------------------- actions
\* URL.createObjectURL(file): a fresh handle for the file.
createObjectURL(file) == [blob |-> urlStore.created + 1, file |-> file]

\* handleImageUpload that keeps the result of the previous file.
UploadResetKeepResult ==
  /\ UNCHANGED processedImageUrl
  /\ error' = Null

\* setProcessedImageUrl(null); setError(null);
UploadReset ==
  /\ processedImageUrl' = Null
  /\ error' = Null

\* handleImageUpload(file), from the file input's change or the label's drop.
\* The file is a new File object: the n-th one chosen in the session.
handleImageUpload(kind) ==
  /\ urlStore.created < MaxUploads
  /\ LET file == [id |-> urlStore.created + 1, type |-> kind.type, data |-> kind.data]
         objectUrl == createObjectURL(file)
     IN  /\ uploadedFile' = Some(file)
         /\ UploadReset
         /\ urlStore' = [created |-> urlStore.created + 1,
                         live |-> urlStore.live \cup {objectUrl}]
         /\ previewUrl' = Some(objectUrl)
  /\ UNCHANGED <<backgroundOption, isLoading, attempts, nAttempts, started, calls>>
  /\ last' = Step("handleImageUpload", 0, kind)
  /\ Render

\* An option change that also discards the result.
setBackgroundOptionReset(option) ==
  /\ option # backgroundOption
  /\ backgroundOption' = option
  /\ processedImageUrl' = Null
  /\ UNCHANGED <<uploadedFile, previewUrl, isLoading, error,
                 attempts, nAttempts, started, urlStore, calls>>
  /\ last' = Step("setBackgroundOption", 0, option)
  /\ Render

\* setBackgroundOption(option), from the change of a radio input that was
\* not the checked one.
setBackgroundOption(option) ==
  /\ option # backgroundOption
  /\ backgroundOption' = option
  /\ UNCHANGED <<uploadedFile, previewUrl, processedImageUrl, isLoading, error,
                 attempts, nAttempts, started, urlStore, calls>>
  /\ last' = Step("setBackgroundOption", 0, option)
  /\ Render

\* An attempt suspended in `await fn(...)`, with the file and the option its
\* closure holds.
Suspended(fn, file, option) == [pc |-> fn, file |-> file, option |-> option]

\* A call to a collaborator, by the attempt that made it.
Call(fn, att, args) == [fn |-> fn, att |-> att, args |-> args]

\* The attempts left when attempt a has run to its end.
Settle(a) == [b \in DOMAIN attempts \ {a} |-> attempts[b]]

\* A validation that raises the loading flag before it returns.
ValidationFailedLoading ==
  /\ error' = Some(ValidationMessage)
  /\ isLoading' = TRUE
  /\ UNCHANGED <<uploadedFile, previewUrl, processedImageUrl, backgroundOption,
                 attempts, nAttempts, started, urlStore, calls>>
  /\ last' = Step("handleProcessImage", 0, Null)

\* if (!uploadedFile) { setError("Please upload an image first."); return; }
ValidationFailed ==
  /\ error' = Some(ValidationMessage)
  /\ UNCHANGED <<uploadedFile, previewUrl, processedImageUrl, backgroundOption,
                 isLoading, attempts, nAttempts, started, urlStore, calls>>
  /\ last' = Step("handleProcessImage", 0, Null)

\* A start of attempt that leaves the previous result on display.
StartResetKeepResult ==
  /\ isLoading' = TRUE
  /\ error' = Null
  /\ UNCHANGED processedImageUrl

\* A start of attempt that leaves the previous error on display.
StartResetKeepError ==
  /\ isLoading' = TRUE
  /\ UNCHANGED error
  /\ processedImageUrl' = Null

\* A start of attempt that does not raise the loading flag.
StartResetNoLoading ==
  /\ UNCHANGED isLoading
  /\ error' = Null
  /\ processedImageUrl' = Null

\* setIsLoading(true); setError(null); setProcessedImageUrl(null);
StartReset ==
  /\ isLoading' = TRUE
  /\ error' = Null
  /\ processedImageUrl' = Null

\* The start of an attempt: the reset, then fileToBase64(uploadedFile) is
\* called and awaited.
StartAttempt(closure) ==
  LET a == nAttempts + 1
      file == closure.uploadedFile[1]
  IN  /\ StartReset
      /\ nAttempts' = a
      /\ started' = (a :> Selection) @@ started
      /\ attempts' = (a :> Suspended("fileToBase64", file, closure.backgroundOption))
                       @@ attempts
      /\ calls' = Append(calls, Call("fileToBase64", a, <<file>>))
      /\ UNCHANGED <<uploadedFile, previewUrl, backgroundOption, urlStore>>
      /\ last' = Step("handleProcessImage", a, Null)

\* handleProcessImage(), up to its first await. It reads the file and the
\* option of the render it was created in.
handleProcessImage ==
  LET closure == processCallback.value IN
  /\ IF closure.uploadedFile = Null
     THEN ValidationFailed
     ELSE StartAttempt(closure)
  /\ Render

\* disabled={!uploadedFile}: a button that ignores the loading flag.
ButtonDisabledNoFile == uploadedFile = Null

\* <button onClick={handleProcessImage} disabled={!canProcess}>
ButtonDisabled == ~Truthy(canProcess)

\* A click on the process button: a disabled button gets no click.
ClickProcess ==
  /\ ~ButtonDisabled
  /\ nAttempts < MaxAttempts
  /\ handleProcessImage

\* reader.onload in attempt a: fileToBase64 resolves, the attempt builds the
\* prompt and calls processImage.
FileReaderLoad(a) ==
  /\ a \in DOMAIN attempts
  /\ attempts[a].pc = "fileToBase64"
  /\ LET encoded == fileToBase64(attempts[a].file)
         prompt == Prompt(attempts[a].option)
     IN  calls' = Append(calls, Call("processImage", a,
                                     <<encoded.base64, encoded.mimeType, prompt>>))
  /\ attempts' = [attempts EXCEPT ![a].pc = "processImage"]
  /\ UNCHANGED <<uploadedFile, previewUrl, processedImageUrl, backgroundOption,
                 isLoading, error, nAttempts, started, urlStore>>
  /\ last' = Step("FileReaderLoad", a, Null)
  /\ Render

\* A catch with no finally: the loading flag stays up.
FailedStillLoading(a, err) ==
  /\ error' = Some(ErrorMessage(err))
  /\ UNCHANGED isLoading
  /\ attempts' = Settle(a)
  /\ UNCHANGED <<uploadedFile, previewUrl, processedImageUrl, backgroundOption,
                 nAttempts, started, urlStore, calls>>

\* A catch that also takes the preview down.
FailedClearsPreview(a, err) ==
  /\ error' = Some(ErrorMessage(err))
  /\ isLoading' = FALSE
  /\ previewUrl' = Null
  /\ attempts' = Settle(a)
  /\ UNCHANGED <<uploadedFile, processedImageUrl, backgroundOption,
                 nAttempts, started, urlStore, calls>>

\* catch (err) { setError(...) } finally { setIsLoading(false) }
Failed(a, err) ==
  /\ error' = Some(ErrorMessage(err))
  /\ isLoading' = FALSE
  /\ attempts' = Settle(a)
  /\ UNCHANGED <<uploadedFile, previewUrl, processedImageUrl, backgroundOption,
                 nAttempts, started, urlStore, calls>>

\* A read error that is swallowed: the attempt goes on to call processImage
\* with nothing encoded.
FileReaderErrorContinues(a) ==
  /\ a \in DOMAIN attempts
  /\ attempts[a].pc = "fileToBase64"
  /\ calls' = Append(calls, Call("processImage", a,
                                 <<"", "", Prompt(attempts[a].option)>>))
  /\ attempts' = [attempts EXCEPT ![a].pc = "processImage"]
  /\ UNCHANGED <<uploadedFile, previewUrl, processedImageUrl, backgroundOption,
                 isLoading, error, nAttempts, started, urlStore>>
  /\ last' = Step("FileReaderError", a, ReadErrorEvent)
  /\ Render

\* reader.onerror in attempt a: fileToBase64 rejects with the error event.
FileReaderError(a) ==
  /\ a \in DOMAIN attempts
  /\ attempts[a].pc = "fileToBase64"
  /\ Failed(a, ReadErrorEvent)
  /\ last' = Step("FileReaderError", a, ReadErrorEvent)
  /\ Render

\* processImage resolves in attempt a with resultBase64.
ProcessImageResolve(a, resultBase64) ==
  /\ a \in DOMAIN attempts
  /\ attempts[a].pc = "processImage"
  /\ processedImageUrl' = Some(NewImageUrl(resultBase64))
  /\ isLoading' = FALSE
  /\ attempts' = Settle(a)
  /\ UNCHANGED <<uploadedFile, previewUrl, backgroundOption, error, nAttempts, started,
                 urlStore, calls>>
  /\ last' = Step("ProcessImageResolve", a, resultBase64)
  /\ Render

\* processImage rejects in attempt a with err.
ProcessImageReject(a, err) ==
  /\ a \in DOMAIN attempts
  /\ attempts[a].pc = "processImage"
  /\ Failed(a, err)
  /\ last' = Step("ProcessImageReject", a, err)
  /\ Render

Upload == \E kind \in FileKinds : handleImageUpload(kind)
SelectOption == \E option \in BackgroundOption : setBackgroundOption(option)
EncodeDone == \E a \in DOMAIN attempts : FileReaderLoad(a)
EncodeFailed == \E a \in DOMAIN attempts : FileReaderError(a)
RemoteDone == \E a \in DOMAIN attempts : \E p \in Payloads : ProcessImageResolve(a, p)
RemoteFailed == \E a \in DOMAIN attempts : \E err \in RemoteErrors : ProcessImageReject(a, err)

\* The component as rendered: the user drives it through its widgets.
Next ==
  \/ Upload
  \/ SelectOption
  \/ ClickProcess
  \/ EncodeDone
  \/ EncodeFailed
  \/ RemoteDone
  \/ RemoteFailed

Spec == Init /\ [][Next]_vars

\* The handler called as a function, whatever the button's state.
InvokeProcess ==
  /\ nAttempts < MaxInvocations
  /\ handleProcessImage

NextHandlers ==
  \/ Upload
  \/ SelectOption
  \/ InvokeProcess
  \/ EncodeDone
  \/ EncodeFailed
  \/ RemoteDone
  \/ RemoteFailed

SpecHandlers == Init /\ [][NextHandlers]_vars

\* ---------------------------------------------------------------- claims
\* A nullable string that is present and not "".
NonEmpty(v) == v # Null /\ v[1] # ""

\* The file attempt a was started on: the argument of its fileToBase64 call.
AttemptFile(a) ==
  LET i == CHOOSE j \in 1..Len(calls) : calls[j].fn = "fileToBase64" /\ calls[j].att = a
  IN  calls[i].args[1]

\* The last step was the end of an attempt: success, or failure in either await.
Completed == last.op \in {"FileReaderError", "ProcessImageResolve", "ProcessImageReject"}
FailedStep == last.op \in {"FileReaderError", "ProcessImageReject"}

\* The last step ended an attempt whose file had been replaced by an upload
\* while the attempt was suspended.
StaleCompleted == Completed /\ uploadedFile # Some(AttemptFile(last.att))

\* C1: the completion, success or failure, of an attempt that an upload has
\* overtaken is discarded: it writes neither the result nor the error.
C1_StaleCompletionDiscarded ==
  StaleCompleted =>
    /\ processedImageUrl = last.pre.processedImageUrl
    /\ error = last.pre.error

\* C2: handleProcessImage with no uploaded file calls neither fileToBase64 nor
\* processImage, sets the error to "Please upload an image first.", and
\* leaves isLoading false and the result unchanged.
C2_NoFileValidation ==
  /\ (last.op = "handleProcessImage" /\ last.pre.uploadedFile = Null) =>
       /\ error = Some("Please upload an image first.")
       /\ isLoading = FALSE
       /\ processedImageUrl = last.pre.processedImageUrl
       /\ Len(calls) = last.preCalls
       /\ DOMAIN attempts = last.preAttempts
  /\ uploadedFile = Null => (calls = << >> /\ DOMAIN attempts = {})

C2_Witness ==
  /\ last.op = "handleProcessImage"
  /\ last.pre.uploadedFile = Null
  /\ last.pre.error = Null
  /\ error # Null

\* C3: right after an attempt completes, exactly one of the result and the
\* error is non-empty, whatever uploads and option changes came in between.
C3_ExactlyOneOutcome ==
  Completed => (NonEmpty(processedImageUrl) # NonEmpty(error))

C3_Witness ==
  /\ StaleCompleted
  /\ last.op = "ProcessImageReject"
  /\ last.arg.message = Null
  /\ backgroundOption = "ORIGINAL"

\* C4: at most one attempt is in flight, and an attempt only starts from a
\* state with no attempt in flight and isLoading false.
C4_NotReentrant ==
  /\ Cardinality(DOMAIN attempts) <= 1
  /\ (last.op = "handleProcessImage" /\ last.att # 0) =>
       (last.preAttempts = {} /\ ~last.pre.isLoading)
  /\ isLoading => ~Truthy(canProcess)

C4_Witness ==
  /\ last.op = "handleProcessImage"
  /\ last.att = 2
  /\ DOMAIN attempts = {2}

\* C5: whenever isLoading is true, the error and the result are both empty.
C5_LoadingIsClean ==
  isLoading => (error = Null /\ processedImageUrl = Null)

C5_Witness ==
  /\ isLoading
  /\ last.op = "handleProcessImage"
  /\ last.pre.processedImageUrl # Null

\* C6: the error and the result are never both non-empty.
C6_MutuallyExclusive ==
  ~(processedImageUrl # Null /\ error # Null)

C6_Witness ==
  /\ last.op = "ProcessImageResolve"
  /\ last.att = 2
  /\ processedImageUrl # Null
  /\ \E j \in 1..Len(calls) : calls[j].fn = "processImage" /\ calls[j].att = 1

\* C7: canProcess is true exactly when a file is uploaded and isLoading is
\* false.
C7_CanProcess ==
  Truthy(canProcess) <=> (uploadedFile # Null /\ ~isLoading)

C7_Witness ==
  /\ Truthy(canProcess)
  /\ Completed

\* C8: handleImageUpload, from any state, replaces the file, sets the preview
\* to a new reference for that file, empties the result and the error, starts
\* no attempt, makes no call and leaves the option and isLoading as they were.
C8_UploadEffect ==
  last.op = "handleImageUpload" =>
    /\ uploadedFile # Null
    /\ uploadedFile # last.pre.uploadedFile
    /\ uploadedFile[1].type = last.arg.type
    /\ uploadedFile[1].data = last.arg.data
    /\ previewUrl # Null
    /\ previewUrl # last.pre.previewUrl
    /\ previewUrl[1].file = uploadedFile[1]
    /\ processedImageUrl = Null
    /\ error = Null
    /\ backgroundOption = last.pre.backgroundOption
    /\ isLoading = last.pre.isLoading
    /\ DOMAIN attempts = last.preAttempts
    /\ Len(calls) = last.preCalls

C8_Witness ==
  /\ last.op = "handleImageUpload"
  /\ last.pre.processedImageUrl # Null
  /\ last.pre.uploadedFile # Null

\* C9: setBackgroundOption changes the option and nothing else: the file, the
\* preview, the result, the error and isLoading stay, and so do the attempts.
C9_SelectOptionEffect ==
  last.op = "setBackgroundOption" =>
    /\ backgroundOption = last.arg
    /\ uploadedFile = last.pre.uploadedFile
    /\ previewUrl = last.pre.previewUrl
    /\ processedImageUrl = last.pre.processedImageUrl
    /\ error = last.pre.error
    /\ isLoading = last.pre.isLoading
    /\ DOMAIN attempts = last.preAttempts
    /\ Len(calls) = last.preCalls

C9_Witness ==
  /\ last.op = "setBackgroundOption"
  /\ processedImageUrl # Null
  /\ backgroundOption = "ORIGINAL"

\* C10: when an attempt fails, in fileToBase64 or in processImage, the error
\* becomes the failure's message, or "An unexpected error occurred." when it
\* has none; isLoading becomes false, the result stays empty and the attempt
\* is over.
C10_FailureEffect ==
  FailedStep =>
    /\ error = IF last.arg.message = Null \/ last.arg.message = Some("")
               THEN Some("An unexpected error occurred.")
               ELSE last.arg.message
    /\ isLoading = FALSE
    /\ processedImageUrl = Null
    /\ last.att \in last.preAttempts
    /\ last.att \notin DOMAIN attempts

C10_Witness ==
  /\ last.op = "ProcessImageReject"
  /\ error = Some("quota exceeded")
  /\ last.pre.isLoading

\* C11: when processImage resolves with payload p, the result becomes
\* "data:image/png;base64," followed by p, isLoading becomes false and the
\* error is empty.
C11_SuccessEffect ==
  last.op = "ProcessImageResolve" =>
    /\ processedImageUrl = Some("data:image/png;base64," \o last.arg)
    /\ (last.arg = "Zm9v" => processedImageUrl = Some("data:image/png;base64,Zm9v"))
    /\ isLoading = FALSE
    /\ error = Null
    /\ last.att \in last.preAttempts
    /\ last.att \notin DOMAIN attempts

C11_Witness ==
  /\ last.op = "ProcessImageResolve"
  /\ last.arg = "Zm9v"
  /\ last.pre.isLoading
  /\ started[last.att].backgroundOption = "WHITE"
  /\ started[last.att].uploadedFile[1].type = "image/jpeg"
  /\ processedImageUrl = Some("data:image/png;base64,Zm9v")

\* The awaited calls settle: a suspended attempt's fileToBase64 and
\* processImage each resolve or reject in the end, and the continuation runs.
Settling ==
  /\ WF_vars(EncodeDone \/ EncodeFailed)
  /\ WF_vars(RemoteDone \/ RemoteFailed)

SpecLive == Spec /\ Settling

\* C12: every started attempt whose awaited calls settle comes to an end with
\* isLoading false, and the end of an attempt, failure included, leaves the
\* workflow usable: a file is present, canProcess is true and the process
\* button is enabled.
C12_AttemptEndsUsable ==
  /\ \A a \in 1..MaxAttempts :
       (a \in DOMAIN attempts) ~> (a \notin DOMAIN attempts /\ ~isLoading)
  /\ [](Completed => (~isLoading /\ uploadedFile # Null /\ Truthy(canProcess)
                       /\ ~ButtonDisabled))

C12_Witness ==
  /\ FailedStep
  /\ last.att = 1
  /\ last.pre.isLoading
  /\ ~isLoading
  /\ Truthy(canProcess)
  /\ nAttempts < MaxAttempts

\* C13: a preview handle is released when a newer upload supersedes it: at
\* most one object URL is live, and it is the current preview.
C13_SupersededReleased ==
  /\ Cardinality(urlStore.live) <= 1
  /\ previewUrl # Null => urlStore.live = {previewUrl[1]}

\* The last step was the start of an attempt / the validation failure of
\* handleProcessImage.
StartedStep == last.op = "handleProcessImage" /\ last.att # 0
ValidationStep == last.op = "handleProcessImage" /\ last.att = 0

C15_PreviewIndependent ==
  /\ previewUrl # last.pre.previewUrl => last.op = "handleImageUpload"
  /\ uploadedFile # last.pre.uploadedFile => last.op = "handleImageUpload"
  /\ (previewUrl # Null) <=> (uploadedFile # Null)
  /\ previewUrl # Null => previewUrl[1].file = uploadedFile[1]

C15_Witness ==
  /\ last.op = "ProcessImageReject"
  /\ previewUrl # Null
  /\ previewUrl = last.pre.previewUrl
  /\ previewUrl[1].file = uploadedFile[1]

\* The calls to processImage made so far, as positions in the call log.
RemoteCalls == {j \in 1..Len(calls) : calls[j].fn = "processImage"}
EncodeCalls == {j \in 1..Len(calls) : calls[j].fn = "fileToBase64"}

\* The option that was selected when the attempt of call j was started.
OptionOf(j) == started[calls[j].att].backgroundOption

\* C16: the instruction of every processImage call is fixed by the option
\* selected when its attempt was started: the WHITE text for WHITE, the
\* ORIGINAL text for ORIGINAL, two different texts, and two calls made for the
\* same option carry the same instruction.
C16_InstructionFromOption ==
  /\ PromptWhite # PromptOriginal
  /\ \A j \in RemoteCalls :
       /\ OptionOf(j) = "WHITE" => calls[j].args[3] = PromptWhite
       /\ OptionOf(j) = "ORIGINAL" => calls[j].args[3] = PromptOriginal
  /\ \A j, k \in RemoteCalls :
       (OptionOf(j) = OptionOf(k)) <=> (calls[j].args[3] = calls[k].args[3])

C16_Witness ==
  \E j, k \in RemoteCalls :
    /\ OptionOf(j) = "WHITE"
    /\ OptionOf(k) = "ORIGINAL"
    /\ calls[j].args[3] # calls[k].args[3]

\* C17: an attempt works on the file and the option that were selected when
\* it was started: it encodes that file and sends that file's payload, media
\* type and that option's instruction, whatever upload or option change
\* arrives while it is suspended.
C17_CapturedAtStart ==
  /\ \A a \in DOMAIN attempts :
       /\ Some(attempts[a].file) = started[a].uploadedFile
       /\ attempts[a].option = started[a].backgroundOption
  /\ \A j \in EncodeCalls :
       <<calls[j].args[1]>> = started[calls[j].att].uploadedFile
  /\ \A j \in RemoteCalls :
       LET file == started[calls[j].att].uploadedFile[1]
       IN  calls[j].args = <<Base64Of(file.data), file.type, Prompt(OptionOf(j))>>

C17_Witness ==
  /\ last.op = "FileReaderLoad"
  /\ uploadedFile # started[last.att].uploadedFile
  /\ uploadedFile[1].type # started[last.att].uploadedFile[1].type
  /\ backgroundOption # started[last.att].backgroundOption
  /\ calls[Len(calls)].att = last.att
  /\ calls[Len(calls)].args[2] = started[last.att].uploadedFile[1].type

\* C18: isLoading is true exactly while an attempt is started and not yet
\* over; an upload during the attempt leaves it true, and it is not false
\* while an attempt is suspended.
C18_LoadingTracksAttempt ==
  /\ isLoading <=> (DOMAIN attempts # {})
  /\ (last.op = "handleImageUpload" /\ last.preAttempts # {}) => isLoading

C18_Witness ==
  /\ last.op = "handleImageUpload"
  /\ last.preAttempts # {}
  /\ isLoading
  /\ \E a \in DOMAIN attempts : attempts[a].pc = "processImage"

\* C19: in an attempt the file is encoded first and processImage is called
\* at most once, by the continuation of that attempt's successful encode; a
\* read error ends the attempt with no processImage call; and no call is made
\* while no file is uploaded.
C19_EncodeThenRemote ==
  /\ \A j \in RemoteCalls :
       /\ \E i \in EncodeCalls : i < j /\ calls[i].att = calls[j].att
       /\ \A k \in RemoteCalls : calls[k].att = calls[j].att => k = j
  /\ \A i, k \in EncodeCalls : calls[i].att = calls[k].att => i = k
  /\ (Len(calls) > last.preCalls /\ calls[Len(calls)].fn = "processImage") =>
       (last.op = "FileReaderLoad" /\ calls[Len(calls)].att = last.att)
  /\ (Len(calls) > last.preCalls /\ calls[Len(calls)].fn = "fileToBase64") =>
       (StartedStep /\ calls[Len(calls)].att = last.att /\ last.pre.uploadedFile # Null)
  /\ last.op = "FileReaderError" =>
       /\ last.att \notin DOMAIN attempts
       /\ \A j \in RemoteCalls : calls[j].att # last.att
  /\ \A a \in DOMAIN attempts :
       attempts[a].pc = "fileToBase64" => \A j \in RemoteCalls : calls[j].att # a
  /\ uploadedFile = Null => calls = << >>

C19_Witness ==
  /\ last.op = "FileReaderLoad"
  /\ Len(calls) = 2
  /\ calls[1].fn = "fileToBase64"
  /\ calls[2].fn = "processImage"
  /\ calls[1].att = calls[2].att

====
